---- MODULE Spec2Model ----
(***************************************************************************)
(* Model of src/main/client/scan.c: the background-scan submission         *)
(* (AerospikeClient_ScanApply / AerospikeClient_ScanApply_Invoke) and the  *)
(* status poll (AerospikeClient_ScanInfo) of the Aerospike Python client.  *)
(*                                                                         *)
(* Every call runs in a call slot that holds the C locals of the function, *)
(* the Python error indicator, the value returned and a trace of the       *)
(* collaborator calls it made.  The store (the C client library and the    *)
(* server behind it) is the environment: it owns the job table.            *)
(***************************************************************************)
EXTENDS Integers, Sequences, FiniteSets, TLC

\* ------------------------------------------------------------------------
\* 64-bit words.  TLC's integers are 32 bits wide, so a 64-bit word is kept
\* as four 16-bit limbs, most significant first.
\* ------------------------------------------------------------------------
LimbBase == 2^16
LimbMax == LimbBase - 1
SignLimb == 2^15

Limbs == 1..4

Word(a, b, c, d) == <<a, b, c, d>>

RECURSIVE AddOneFrom(_, _)
\* w + 1 (mod 2^64), the carry entering at limb i and moving up.
AddOneFrom(w, i) ==
    IF i = 0 THEN w
    ELSE IF w[i] = LimbMax THEN AddOneFrom([w EXCEPT ![i] = 0], i - 1)
    ELSE [w EXCEPT ![i] = w[i] + 1]

\* Two's complement negation of a 64-bit word: 2^64 - w (mod 2^64).
Negate(w) ==
    AddOneFrom(Word(LimbMax - w[1], LimbMax - w[2], LimbMax - w[3], LimbMax - w[4]), 4)

TopBitSet(w) == w[1] >= SignLimb

WordZero == Word(0, 0, 0, 0)
WordMin == Word(SignLimb, 0, 0, 0)

\* A Python integer: a sign and a magnitude (below 2^64 in this model).
PyInt(s, m) == [sign |-> s, mag |-> m]

\* uint64_t -> long, the implicit conversion of the argument of
\* PyLong_FromLong(scan_id): the word keeps its bits (LP64, two's complement).
UInt64ToLong(w) == w

\* long -> uint64_t, the implicit conversion of lscanId passed as the
\* scan_id argument of aerospike_scan_info: the word keeps its bits.
LongToUInt64(w) == w

\* PyLong_FromLong: the Python integer whose value is the signed reading of
\* the word.
PyLong_FromLong(w) ==
    IF TopBitSet(w) THEN PyInt(-1, Negate(w)) ELSE PyInt(1, w)

\* PyLong_FromLong of a small non-negative C value (uint32_t, enum).
PyLong_FromSmall(n) == n

\* The "l" format unit: does the Python integer fit a C long ?
FitsLong(v) ==
    IF v.sign = 1 THEN ~TopBitSet(v.mag)
    ELSE ~TopBitSet(v.mag) \/ v.mag = WordMin

\* A conversion that takes the magnitude and drops the sign.
PyLong_AsLong_Magnitude(v) == v.mag

\* The "l" format unit: the C long of a Python integer that fits.
PyLong_AsLong(v) == IF v.sign = 1 THEN v.mag ELSE Negate(v.mag)

\* ------------------------------------------------------------------------
\* Values
\* ------------------------------------------------------------------------
NULL == "NULL"

AEROSPIKE_OK == "AEROSPIKE_OK"
AEROSPIKE_ERR_PARAM == "AEROSPIKE_ERR_PARAM"

\* as_error after as_error_init.
ErrorInit == [code |-> AEROSPIKE_OK, message |-> ""]

\* as_error_update(&err, code, message)
as_error_update(code, message) == [code |-> code, message |-> message]

\* The offset between the store's scan status and the public one.
AS_SCAN_STATUS == 100

PROGRESS_PCT == "progress_pct"
RECORDS_SCANNED == "records_scanned"
STATUS == "status"

\* ------------------------------------------------------------------------
\* Bounds and input domains
\* ------------------------------------------------------------------------
\* The number of jobs the store's registry holds.
MaxJobs == 1

\* A string argument as the caller passes it: absent (None or missing), the
\* empty string, or a non-empty string.
Str == {NULL, "", "s"}

\* The args argument: a list whose elements convert, a list with an element
\* the converter rejects, a scalar, a mapping.
ArgKinds == {"list", "list_bad", "scalar", "mapping"}

\* The policy argument: absent, a well-formed policy, one the validator
\* rejects, one the validator accepts and the converter rejects.
Policies == {NULL, "valid", "bad_shape", "bad_value"}

\* The options argument: absent, accepted, rejected by set_scan_options.
OptionKinds == {NULL, "valid", "bad"}

\* The identifiers the store issues: 0, 2^63 - 1, 2^63 and 2^64 - 1.
IdSet ==
    { WordZero,
      Word(SignLimb - 1, LimbMax, LimbMax, LimbMax),
      WordMin,
      Word(LimbMax, LimbMax, LimbMax, LimbMax) }

\* The scanid argument of scan_info: what scan_apply returned for an issued
\* identifier, the identifier itself as a non-negative integer, or an object
\* that is no integer.
NotAnInt == PyInt(0, WordZero)
ScanIdArgs ==
    {PyLong_FromLong(UInt64ToLong(i)) : i \in IdSet}
        \cup {PyInt(1, i) : i \in IdSet} \cup {NotAnInt}

\* The errors the store sets when it fails an operation.
StoreErrors ==
    { [code |-> "AEROSPIKE_ERR_SERVER", message |-> "server error"],
      [code |-> "AEROSPIKE_ERR_TIMEOUT", message |-> "timeout"] }

\* The raw snapshots of a job, in the order the job goes through them
\* (status 1 is in progress, 3 is completed).
RawSnapshots ==
    << [status |-> 1, progress_pct |-> 55, records_scanned |-> 1000],
       [status |-> 3, progress_pct |-> 100, records_scanned |-> 2000] >>

\* as_scan_info scan_info before the store fills it.
ScanInfoUnset == [status |-> -1, progress_pct |-> -1, records_scanned |-> -1]

\* The call slots; the sequential specification uses the first one.
Slots == {1, 2}
Callers == {1}

VARIABLES
    loc,        \* loc[t]: the locals, outcome and trace of the call in slot t
    jobs,       \* the store's registry: identifier -> index into RawSnapshots
    lastInfo    \* the last snapshot scan_info returned, while the job it
                \* describes has not changed in the store

vars == <<loc, jobs, lastInfo>>

NoExc == [type |-> "none", code |-> "", message |-> ""]
NoResult == [kind |-> "none", int |-> PyInt(1, WordZero), dict |-> {}]
NullResult == [kind |-> NULL, int |-> PyInt(1, WordZero), dict |-> {}]

\* What the C client and the store answered to the call, as long as they have
\* not: whether as_scan_apply_each attached the UDF, and what
\* aerospike_scan_background and aerospike_scan_info did.
NoResponses ==
    [ attached |-> FALSE,
      submit |-> [accepted |-> FALSE, id |-> WordZero, err |-> ErrorInit],
      query |-> [status |-> AEROSPIKE_OK, err |-> ErrorInit,
                 scan_info |-> ScanInfoUnset] ]

\* A call slot in which no call runs.
IdleLocal ==
    [ pc |-> "idle", op |-> "none", self_ok |-> FALSE,
      namespace |-> NULL, set |-> NULL, module |-> NULL, function |-> NULL,
      py_args |-> NULL, py_policy |-> NULL, py_options |-> NULL,
      arglist |-> NULL, policy_p |-> NULL, err |-> ErrorInit,
      is_scan_init |-> FALSE, scan_udf |-> NULL, scan_id |-> WordZero,
      retObj |-> [null |-> TRUE, items |-> {}],
      py_scanid |-> NotAnInt, lscanId |-> WordZero,
      scan_info |-> ScanInfoUnset, status |-> AEROSPIKE_OK,
      result |-> NoResult, exc |-> NoExc,
      trace |-> <<>>, submits |-> 0, queries |-> 0,
      list_destroys |-> 0, scan_destroys |-> 0, reports |-> 0,
      fresh |-> FALSE, resp |-> NoResponses, queried |-> WordZero ]

NoInfo == [valid |-> FALSE, py_scanid |-> NotAnInt, policy |-> NULL, dict |-> {}]

Init ==
    /\ loc = [t \in Slots |-> IdleLocal]
    /\ jobs = [i \in {} |-> 0]
    /\ lastInfo = NoInfo

Called(l, step) == [l EXCEPT !.trace = Append(@, step)]

\* ------------------------------------------------------------------------
\* Collaborators of scan.c that live in policy.c and conversions.c
\* ------------------------------------------------------------------------
\* validate_policy_scan(&err, py_policy, &policy): the error record after it.
validate_policy_scan(err, py_policy) ==
    IF py_policy = "bad_shape"
    THEN as_error_update(AEROSPIKE_ERR_PARAM, "policy must be a dict")
    ELSE err

\* pyobject_to_policy_scan(&err, py_policy, &policy, &policy_p): the error
\* record and the policy pointer after it.
pyobject_to_policy_scan(err, py_policy) ==
    IF py_policy = "bad_value"
    THEN [err |-> as_error_update(AEROSPIKE_ERR_PARAM, "invalid policy value"),
          policy_p |-> NULL]
    ELSE [err |-> err, policy_p |-> "policy"]

\* pyobject_to_policy_info(&err, py_policy, &policy, &policy_p): an absent
\* policy converts to no policy.
pyobject_to_policy_info(err, py_policy) ==
    IF py_policy = NULL THEN [err |-> err, policy_p |-> NULL]
    ELSE IF py_policy = "bad_value"
    THEN [err |-> as_error_update(AEROSPIKE_ERR_PARAM, "invalid policy value"),
          policy_p |-> NULL]
    ELSE [err |-> err, policy_p |-> "policy"]

\* set_scan_options(&err, &scan, py_options): the error record after it.
set_scan_options(err, py_options) ==
    IF py_options = "bad"
    THEN as_error_update(AEROSPIKE_ERR_PARAM, "invalid scan option")
    ELSE err

\* pyobject_to_list(&err, py_args, &arglist): the list is allocated first and
\* filled element by element; a rejected element leaves the error set and the
\* list allocated.
pyobject_to_list(err, py_args) ==
    IF py_args = "list_bad"
    THEN [err |-> as_error_update(AEROSPIKE_ERR_PARAM, "value cannot be converted"),
          arglist |-> "list"]
    ELSE [err |-> err, arglist |-> "list"]

\* error_to_pyobject + PyErr_SetObject(PyExc_Exception, py_err): the pending
\* Python exception carries the code and the message of the error record.
error_to_pyobject(err) ==
    [type |-> "Exception", code |-> err.code, message |-> err.message]

\* ------------------------------------------------------------------------
\* AerospikeClient_ScanApply and AerospikeClient_ScanApply_Invoke
\* ------------------------------------------------------------------------
PyList_Check(py_args) == py_args \in {"list", "list_bad"}

\* A parse that lets an absent string through as a null pointer (the "z"
\* format unit in place of "s").
ScanApply_Parse_AcceptsNone(self_ok, ns, set, module, function, py_args, py_policy, py_options) ==
    [IdleLocal EXCEPT !.op = "scan_apply", !.self_ok = self_ok,
                      !.namespace = ns, !.set = set, !.module = module,
                      !.function = function, !.pc = "sa_pre", !.py_args = py_args,
                      !.py_policy = py_policy, !.py_options = py_options]

\* PyArg_ParseTupleAndKeywords(args, kwds, "ssssO|OO:scan_apply", ...): the
\* format units are converted in order and the first absent string stops the
\* parse with a TypeError; on success the locals of Invoke are initialised.
ScanApply_Parse(self_ok, ns, set, module, function, py_args, py_policy, py_options) ==
    LET p1 == ns
        p2 == IF p1 # NULL THEN set ELSE NULL
        p3 == IF p2 # NULL THEN module ELSE NULL
        p4 == IF p3 # NULL THEN function ELSE NULL
        base == [IdleLocal EXCEPT !.op = "scan_apply", !.self_ok = self_ok,
                    !.namespace = p1, !.set = p2, !.module = p3, !.function = p4]
    IN  IF p4 = NULL
        THEN [base EXCEPT !.pc = "done", !.result = NullResult,
                          !.exc = [type |-> "TypeError", code |-> "", message |-> ""]]
        ELSE [base EXCEPT !.pc = "sa_pre", !.py_args = py_args,
                          !.py_policy = py_policy, !.py_options = py_options,
                          !.arglist = NULL, !.policy_p = NULL, !.err = ErrorInit,
                          !.scan_id = WordZero, !.is_scan_init = FALSE]

\* The preconditions without the PyList_Check of lines 78-81.
ScanApply_Preconditions_NoListCheck(l) ==
    IF ~l.self_ok
    THEN [l EXCEPT !.err = as_error_update(AEROSPIKE_ERR_PARAM, "Invalid aerospike object"),
                   !.pc = "sa_cleanup"]
    ELSE IF l.namespace = NULL \/ l.set = NULL \/ l.module = NULL \/ l.function = NULL
    THEN [l EXCEPT !.err = as_error_update(AEROSPIKE_ERR_PARAM, "Parameter should not be null"),
                   !.pc = "sa_cleanup"]
    ELSE [l EXCEPT !.pc = "sa_scan_init"]

\* The preconditions with the PyList_Check moved in front of the others.
ScanApply_Preconditions_ListCheckFirst(l) ==
    IF ~PyList_Check(l.py_args)
    THEN [l EXCEPT !.err = as_error_update(AEROSPIKE_ERR_PARAM, "Arguments should be a list"),
                   !.pc = "sa_cleanup"]
    ELSE IF ~l.self_ok
    THEN [l EXCEPT !.err = as_error_update(AEROSPIKE_ERR_PARAM, "Invalid aerospike object"),
                   !.pc = "sa_cleanup"]
    ELSE IF l.namespace = NULL \/ l.set = NULL \/ l.module = NULL \/ l.function = NULL
    THEN [l EXCEPT !.err = as_error_update(AEROSPIKE_ERR_PARAM, "Parameter should not be null"),
                   !.pc = "sa_cleanup"]
    ELSE [l EXCEPT !.pc = "sa_scan_init"]

\* Lines 68-81: the three preconditions, in the order of the code.
ScanApply_Preconditions(l) ==
    IF ~l.self_ok
    THEN [l EXCEPT !.err = as_error_update(AEROSPIKE_ERR_PARAM, "Invalid aerospike object"),
                   !.pc = "sa_cleanup"]
    ELSE IF l.namespace = NULL \/ l.set = NULL \/ l.module = NULL \/ l.function = NULL
    THEN [l EXCEPT !.err = as_error_update(AEROSPIKE_ERR_PARAM, "Parameter should not be null"),
                   !.pc = "sa_cleanup"]
    ELSE IF ~PyList_Check(l.py_args)
    THEN [l EXCEPT !.err = as_error_update(AEROSPIKE_ERR_PARAM, "Arguments should be a list"),
                   !.pc = "sa_cleanup"]
    ELSE [l EXCEPT !.pc = "sa_scan_init"]

\* as_scan_init without the flag that records it.
ScanApply_ScanInit_NoFlag(l) ==
    Called([l EXCEPT !.pc = "sa_policy"], "as_scan_init")

\* Lines 83-84: as_scan_init and the flag that records it.
ScanApply_ScanInit(l) ==
    Called([l EXCEPT !.is_scan_init = TRUE, !.pc = "sa_policy"], "as_scan_init")

\* Lines 86-98: validate, then convert, a policy that was supplied.
ScanApply_Policy(l) ==
    IF l.py_policy = NULL THEN [l EXCEPT !.pc = "sa_options"]
    ELSE
        LET l1 == Called([l EXCEPT !.err = validate_policy_scan(l.err, l.py_policy)],
                         "validate_policy_scan")
        IN  IF l1.err.code # AEROSPIKE_OK THEN [l1 EXCEPT !.pc = "sa_cleanup"]
            ELSE
                LET c == pyobject_to_policy_scan(l1.err, l1.py_policy)
                    l2 == Called([l1 EXCEPT !.err = c.err, !.policy_p = c.policy_p],
                                 "pyobject_to_policy_scan")
                IN  IF l2.err.code # AEROSPIKE_OK THEN [l2 EXCEPT !.pc = "sa_cleanup"]
                    ELSE [l2 EXCEPT !.pc = "sa_options"]

\* Lines 100-106: apply the options that were supplied.
ScanApply_Options(l) ==
    LET l1 == IF l.py_options # NULL
              THEN Called([l EXCEPT !.err = set_scan_options(l.err, l.py_options)],
                          "set_scan_options")
              ELSE l
    IN  IF l1.err.code # AEROSPIKE_OK THEN [l1 EXCEPT !.pc = "sa_cleanup"]
        ELSE [l1 EXCEPT !.pc = "sa_to_list"]

\* Lines 108-111: convert the argument list.
ScanApply_ToList(l) ==
    LET c == pyobject_to_list(l.err, l.py_args)
        l1 == Called([l EXCEPT !.err = c.err, !.arglist = c.arglist], "pyobject_to_list")
    IN  IF l1.err.code # AEROSPIKE_OK THEN [l1 EXCEPT !.pc = "sa_cleanup"]
        ELSE [l1 EXCEPT !.pc = "sa_apply_each"]

\* Lines 113-116: as_scan_apply_each attaches the UDF call, and with it the
\* argument list, to the descriptor, or refuses (attached = FALSE).
ScanApply_ApplyEach(l, attached) ==
    LET l1 == Called(l, "as_scan_apply_each")
    IN  IF ~attached
        THEN [l1 EXCEPT !.err = as_error_update(AEROSPIKE_ERR_PARAM,
                                               "Unable to apply UDF on the scan"),
                        !.pc = "sa_cleanup"]
        ELSE [l1 EXCEPT !.scan_udf = l.arglist, !.pc = "sa_background"]

\* A dispatch that is tried a second time when the store refuses it.
ScanApply_Background_Retry(l, out) ==
    LET l1 == Called(l, "aerospike_scan_background")
        l2 == IF out.accepted THEN l1 ELSE Called(l1, "aerospike_scan_background")
    IN  [l2 EXCEPT !.err = out.err,
                   !.scan_id = IF out.accepted THEN out.id ELSE l.scan_id,
                   !.submits = IF out.accepted THEN @ + 1 ELSE @ + 2,
                   !.arglist = NULL,
                   !.pc = "sa_cleanup"]

\* A dispatch that polls the status of the job before it returns.
ScanApply_Background_Polls(l, out) ==
    LET l1 == Called(l, "aerospike_scan_background")
        l2 == IF out.accepted THEN Called(l1, "aerospike_scan_info") ELSE l1
    IN  [l2 EXCEPT !.err = out.err,
                   !.scan_id = IF out.accepted THEN out.id ELSE l.scan_id,
                   !.submits = @ + 1,
                   !.queries = IF out.accepted THEN @ + 1 ELSE @,
                   !.arglist = NULL,
                   !.pc = "sa_cleanup"]

\* A dispatch after which the builder keeps its pointer to the argument list
\* (line 119 left out).
ScanApply_Background_KeepsArglist(l, out) ==
    LET l1 == Called(l, "aerospike_scan_background")
    IN  [l1 EXCEPT !.err = out.err,
                   !.scan_id = IF out.accepted THEN out.id ELSE l.scan_id,
                   !.submits = @ + 1,
                   !.pc = "sa_cleanup"]

\* Lines 118-119: the dispatch.  The status aerospike_scan_background returns
\* is discarded; the code reads the error record and scan_id only.  out is
\* what the store did: whether it accepted, the identifier, the error record.
ScanApply_Background(l, out) ==
    LET l1 == Called(l, "aerospike_scan_background")
    IN  [l1 EXCEPT !.err = out.err,
                   !.scan_id = IF out.accepted THEN out.id ELSE l.scan_id,
                   !.submits = @ + 1,
                   !.arglist = NULL,
                   !.pc = "sa_cleanup"]

\* Lines 121-129: release the argument list that is still the builder's, and
\* the descriptor if it was initialised (as_scan_destroy releases the
\* argument list attached to it).
ScanApply_Release(l) ==
    LET l1 == IF l.arglist # NULL
              THEN Called([l EXCEPT !.list_destroys = @ + 1], "as_list_destroy")
              ELSE l
    IN  IF l1.is_scan_init
        THEN Called([l1 EXCEPT !.scan_destroys = @ + 1,
                               !.list_destroys =
                                    IF l1.scan_udf # NULL THEN @ + 1 ELSE @],
                    "as_scan_destroy")
        ELSE l1

\* Lines 131-139: raise the error record, or return the identifier.
ScanApply_Return(l) ==
    IF l.err.code # AEROSPIKE_OK
    THEN Called([l EXCEPT !.exc = error_to_pyobject(l.err), !.reports = @ + 1,
                          !.result = NullResult, !.pc = "done"],
                "error_to_pyobject")
    ELSE [l EXCEPT !.result = [kind |-> "int",
                               int |-> PyLong_FromLong(UInt64ToLong(l.scan_id)),
                               dict |-> {}],
                   !.pc = "done"]

ScanApply_Cleanup(l) == ScanApply_Return(ScanApply_Release(l))

\* ------------------------------------------------------------------------
\* AerospikeClient_ScanInfo
\* ------------------------------------------------------------------------
\* Lines 192-211: the error record, the result container (PyDict_New returns
\* NULL and leaves a MemoryError pending when it cannot allocate), and
\* PyArg_ParseTupleAndKeywords(args, kwds, "l|O:scan_info", ...), which fails
\* with a TypeError on a non-integer and an OverflowError on an integer that
\* does not fit a C long.
ScanInfo_Parse(self_ok, dict_ok, py_scanid, py_policy) ==
    LET base == Called([IdleLocal EXCEPT
                            !.op = "scan_info", !.self_ok = self_ok,
                            !.err = ErrorInit, !.py_scanid = py_scanid,
                            !.retObj = [null |-> ~dict_ok, items |-> {}],
                            !.exc = IF dict_ok THEN NoExc
                                    ELSE [type |-> "MemoryError", code |-> "",
                                          message |-> ""]],
                       "PyDict_New")
    IN  IF py_scanid = NotAnInt
        THEN [base EXCEPT !.pc = "done", !.result = NullResult,
                          !.exc = [type |-> "TypeError", code |-> "", message |-> ""]]
        ELSE IF ~FitsLong(py_scanid)
        THEN [base EXCEPT !.pc = "done", !.result = NullResult,
                          !.exc = [type |-> "OverflowError", code |-> "", message |-> ""]]
        ELSE [base EXCEPT !.pc = "si_pre", !.lscanId = PyLong_AsLong(py_scanid),
                          !.py_policy = py_policy]

\* Lines 213-216.
ScanInfo_CheckSelf(l) ==
    IF ~l.self_ok
    THEN [l EXCEPT !.err = as_error_update(AEROSPIKE_ERR_PARAM, "Invalid aerospike object"),
                   !.pc = "si_cleanup"]
    ELSE [l EXCEPT !.pc = "si_policy"]

\* The converter alone, on a policy nothing validated.
ScanInfo_Policy_NoValidate(l) ==
    LET c == pyobject_to_policy_info(l.err, l.py_policy)
        l2 == Called([l EXCEPT !.err = c.err, !.policy_p = c.policy_p],
                     "pyobject_to_policy_info")
    IN  IF l2.err.code # AEROSPIKE_OK THEN [l2 EXCEPT !.pc = "si_cleanup"]
        ELSE [l2 EXCEPT !.pc = "si_query"]

\* Lines 218-228: the validator runs on a policy that was supplied; the
\* converter runs whether or not one was.
ScanInfo_Policy(l) ==
    LET l1 == IF l.py_policy # NULL
              THEN Called([l EXCEPT !.err = validate_policy_scan(l.err, l.py_policy)],
                          "validate_policy_scan")
              ELSE l
    IN  IF l1.err.code # AEROSPIKE_OK THEN [l1 EXCEPT !.pc = "si_cleanup"]
        ELSE
            LET c == pyobject_to_policy_info(l1.err, l1.py_policy)
                l2 == Called([l1 EXCEPT !.err = c.err, !.policy_p = c.policy_p],
                             "pyobject_to_policy_info")
            IN  IF l2.err.code # AEROSPIKE_OK THEN [l2 EXCEPT !.pc = "si_cleanup"]
                ELSE [l2 EXCEPT !.pc = "si_query"]

\* Lines 230-233: the status query.  out is what aerospike_scan_info did: the
\* status it returned, the error record it left, the snapshot it wrote.  The
\* code branches on the returned status here and on the error record at
\* CLEANUP.
ScanInfo_Query(l, out) ==
    LET l1 == Called([l EXCEPT !.status = out.status, !.err = out.err,
                               !.scan_info = out.scan_info, !.queries = @ + 1],
                     "aerospike_scan_info")
    IN  IF AEROSPIKE_OK # l1.status THEN [l1 EXCEPT !.pc = "si_cleanup"]
        ELSE [l1 EXCEPT !.pc = "si_fill"]

\* The three items with the raw status passed through.
Snapshot_RawStatus(scan_info) ==
    { <<PROGRESS_PCT, PyLong_FromSmall(scan_info.progress_pct)>>,
      <<RECORDS_SCANNED, PyLong_FromSmall(scan_info.records_scanned)>>,
      <<STATUS, PyLong_FromSmall(scan_info.status)>> }

\* Lines 238-246: the three items of the result.
Snapshot(scan_info) ==
    { <<PROGRESS_PCT, PyLong_FromSmall(scan_info.progress_pct)>>,
      <<RECORDS_SCANNED, PyLong_FromSmall(scan_info.records_scanned)>>,
      <<STATUS, PyLong_FromSmall(scan_info.status + AS_SCAN_STATUS)>> }

\* Lines 235-247: fill the container, if there is one.
ScanInfo_Fill(l) ==
    IF ~l.retObj.null
    THEN [l EXCEPT !.retObj.items = Snapshot(l.scan_info), !.pc = "si_cleanup"]
    ELSE [l EXCEPT !.pc = "si_cleanup"]

\* Lines 249-259: raise the error record, or return the container.
ScanInfo_Cleanup(l) ==
    IF l.err.code # AEROSPIKE_OK
    THEN Called([l EXCEPT !.exc = error_to_pyobject(l.err), !.reports = @ + 1,
                          !.result = NullResult, !.pc = "done"],
                "error_to_pyobject")
    ELSE [l EXCEPT !.result = IF l.retObj.null THEN NullResult
                               ELSE [kind |-> "dict", int |-> PyInt(1, WordZero),
                                     dict |-> l.retObj.items],
                   !.pc = "done"]

\* ------------------------------------------------------------------------
\* The store
\* ------------------------------------------------------------------------
\* What aerospike_scan_background can do: accept the job under an identifier
\* no registered job has, or fail with an error.
SubmitOutcomes(js) ==
    {[accepted |-> TRUE, id |-> i, err |-> ErrorInit] :
        i \in IF Cardinality(DOMAIN js) < MaxJobs THEN IdSet \ DOMAIN js ELSE {}}
    \cup {[accepted |-> FALSE, id |-> WordZero, err |-> e] : e \in StoreErrors}

\* The registry after the store accepted (or refused) a job.
StoreAfterSubmit(js, out) ==
    IF out.accepted
    THEN [i \in DOMAIN js \cup {out.id} |-> IF i = out.id THEN 1 ELSE js[i]]
    ELSE js

\* What aerospike_scan_info can do for scan_id: return the snapshot of a
\* registered job, or fail with an error; and the two ways the status it
\* returns and the error record it leaves can disagree.
QueryOutcomes(js, scan_id) ==
    LET found == scan_id \in DOMAIN js
        raw == RawSnapshots[js[scan_id]]
    IN  {[status |-> AEROSPIKE_OK, err |-> ErrorInit, scan_info |-> raw] :
            x \in IF found THEN {1} ELSE {}}
        \cup {[status |-> e.code, err |-> e, scan_info |-> ScanInfoUnset] :
                e \in StoreErrors}
        \cup {[status |-> e.code, err |-> ErrorInit, scan_info |-> ScanInfoUnset] :
                e \in StoreErrors}
        \cup {[status |-> AEROSPIKE_OK, err |-> e, scan_info |-> raw] :
                e \in IF found THEN StoreErrors ELSE {}}

\* A status query that moves the job on.
StoreAfterQuery_Advances(js, scan_id) ==
    IF scan_id \in DOMAIN js /\ js[scan_id] < Len(RawSnapshots)
    THEN [js EXCEPT ![scan_id] = @ + 1]
    ELSE js

\* The registry after a status query: the query reads it.
StoreAfterQuery(js, scan_id) == js

\* ------------------------------------------------------------------------
\* Actions
\* ------------------------------------------------------------------------
\* The locals of every call if one error record served all of them.
Locals_SharedError(t, l) ==
    [u \in Slots |-> IF u = t THEN l ELSE [loc[u] EXCEPT !.err = l.err]]

\* The locals of every call after a step of the call in slot t took its own
\* to l: err, scan, arglist, the policies, scan_id and scan_info are automatic
\* variables of the invocation (lines 57-63 and 192-204).
Locals(t, l) == [loc EXCEPT ![t] = l]

Step(t, l) ==
    /\ loc' = Locals(t, l)
    /\ UNCHANGED <<jobs, lastInfo>>

\* scan_apply(ns, set, module, function, args, policy, options) is called.
AerospikeClient_ScanApply(t) ==
    /\ loc[t].pc = "idle"
    /\ \E self_ok \in BOOLEAN, ns \in Str, set \in Str, module \in Str,
          function \in Str, py_args \in ArgKinds, py_policy \in Policies,
          py_options \in OptionKinds :
            Step(t, ScanApply_Parse(self_ok, ns, set, module, function,
                                    py_args, py_policy, py_options))

Invoke_Preconditions(t) ==
    /\ loc[t].pc = "sa_pre"
    /\ Step(t, ScanApply_Preconditions(loc[t]))

Invoke_ScanInit(t) ==
    /\ loc[t].pc = "sa_scan_init"
    /\ Step(t, ScanApply_ScanInit(loc[t]))

Invoke_Policy(t) ==
    /\ loc[t].pc = "sa_policy"
    /\ Step(t, ScanApply_Policy(loc[t]))

Invoke_Options(t) ==
    /\ loc[t].pc = "sa_options"
    /\ Step(t, ScanApply_Options(loc[t]))

Invoke_ToList(t) ==
    /\ loc[t].pc = "sa_to_list"
    /\ Step(t, ScanApply_ToList(loc[t]))

Invoke_ApplyEach(t) ==
    /\ loc[t].pc = "sa_apply_each"
    /\ \E attached \in BOOLEAN :
        Step(t, [ScanApply_ApplyEach(loc[t], attached)
                    EXCEPT !.resp.attached = attached])

Invoke_Background(t) ==
    /\ loc[t].pc = "sa_background"
    /\ \E out \in SubmitOutcomes(jobs) :
        /\ loc' = Locals(t, [ScanApply_Background(loc[t], out)
                                EXCEPT !.resp.submit = out])
        /\ jobs' = StoreAfterSubmit(jobs, out)
    /\ UNCHANGED lastInfo

Invoke_Cleanup(t) ==
    /\ loc[t].pc = "sa_cleanup"
    /\ Step(t, ScanApply_Cleanup(loc[t]))

\* scan_info(scanid, policy) is called.
AerospikeClient_ScanInfo(t) ==
    /\ loc[t].pc = "idle"
    /\ \E self_ok \in BOOLEAN, dict_ok \in BOOLEAN, py_scanid \in ScanIdArgs,
          py_policy \in Policies :
            Step(t, ScanInfo_Parse(self_ok, dict_ok, py_scanid, py_policy))

Info_CheckSelf(t) ==
    /\ loc[t].pc = "si_pre"
    /\ Step(t, ScanInfo_CheckSelf(loc[t]))

Info_Policy(t) ==
    /\ loc[t].pc = "si_policy"
    /\ Step(t, ScanInfo_Policy(loc[t]))

\* The query; fresh records that the job has not changed since, queried the
\* identifier passed to aerospike_scan_info (line 231).
Info_Query(t) ==
    /\ loc[t].pc = "si_query"
    /\ \E out \in QueryOutcomes(jobs, LongToUInt64(loc[t].lscanId)) :
        loc' = Locals(t, [ScanInfo_Query(loc[t], out)
                            EXCEPT !.fresh = TRUE, !.resp.query = out,
                                   !.queried = LongToUInt64(loc[t].lscanId)])
    /\ jobs' = StoreAfterQuery(jobs, LongToUInt64(loc[t].lscanId))
    /\ UNCHANGED lastInfo

Info_Fill(t) ==
    /\ loc[t].pc = "si_fill"
    /\ Step(t, ScanInfo_Fill(loc[t]))

Info_Cleanup(t) ==
    /\ loc[t].pc = "si_cleanup"
    /\ Step(t, ScanInfo_Cleanup(loc[t]))

\* A snapshot holds the three fields.
FullSnapshot(d) == {kv[1] : kv \in d} = {PROGRESS_PCT, RECORDS_SCANNED, STATUS}

ReturnedSnapshot(l) ==
    l.pc = "done" /\ l.op = "scan_info" /\ l.result.kind = "dict"
        /\ FullSnapshot(l.result.dict)

\* The caller takes the outcome of the call; the slot is free again.  The
\* snapshot of a job that has not changed since it was queried is remembered.
Return(t) ==
    /\ loc[t].pc = "done"
    /\ loc' = Locals(t, IdleLocal)
    /\ lastInfo' =
        IF ReturnedSnapshot(loc[t])
        THEN IF loc[t].fresh
             THEN [valid |-> TRUE, py_scanid |-> loc[t].py_scanid,
                   policy |-> loc[t].py_policy, dict |-> loc[t].result.dict]
             ELSE NoInfo
        ELSE lastInfo
    /\ UNCHANGED jobs

\* The job changed in the store: what was read of it before is stale.
Stale(i) ==
    /\ loc' = [t \in Slots |->
                IF loc[t].fresh /\ LongToUInt64(loc[t].lscanId) = i
                THEN [loc[t] EXCEPT !.fresh = FALSE] ELSE loc[t]]
    /\ lastInfo' =
        IF lastInfo.valid /\ FitsLong(lastInfo.py_scanid)
              /\ LongToUInt64(PyLong_AsLong(lastInfo.py_scanid)) = i
        THEN NoInfo ELSE lastInfo

\* The store makes progress on a job.
JobProgress(i) ==
    /\ i \in DOMAIN jobs
    /\ jobs[i] < Len(RawSnapshots)
    /\ jobs' = [jobs EXCEPT ![i] = @ + 1]
    /\ Stale(i)

\* The store drops a finished job from its registry.
JobExpire(i) ==
    /\ i \in DOMAIN jobs
    /\ jobs[i] = Len(RawSnapshots)
    /\ jobs' = [j \in DOMAIN jobs \ {i} |-> jobs[j]]
    /\ Stale(i)

Call(t) ==
    \/ AerospikeClient_ScanApply(t)
    \/ Invoke_Preconditions(t)
    \/ Invoke_ScanInit(t)
    \/ Invoke_Policy(t)
    \/ Invoke_Options(t)
    \/ Invoke_ToList(t)
    \/ Invoke_ApplyEach(t)
    \/ Invoke_Background(t)
    \/ Invoke_Cleanup(t)
    \/ AerospikeClient_ScanInfo(t)
    \/ Info_CheckSelf(t)
    \/ Info_Policy(t)
    \/ Info_Query(t)
    \/ Info_Fill(t)
    \/ Info_Cleanup(t)
    \/ Return(t)

Store ==
    \E i \in IdSet : JobProgress(i) \/ JobExpire(i)

Next ==
    \/ \E t \in Callers : Call(t)
    \/ Store

Spec == Init /\ [][Next]_vars

\* ------------------------------------------------------------------------
\* Concurrent calls on one client handle
\* ------------------------------------------------------------------------
\* The arguments of the concurrent calls.
ConcStr == {NULL, "s"}
ConcArgKinds == {"list", "scalar"}
ConcScanIdArgs == {PyLong_FromLong(UInt64ToLong(i)) : i \in {WordZero, WordMin}}

\* scan_apply(ns, "s", "s", "s", args) is called on a connected client.
ScanApply_Concurrent(t) ==
    /\ loc[t].pc = "idle"
    /\ \E ns \in ConcStr, py_args \in ConcArgKinds :
            Step(t, ScanApply_Parse(TRUE, ns, "s", "s", "s", py_args, NULL, NULL))

\* scan_info(scanid) is called on a connected client.
ScanInfo_Concurrent(t) ==
    /\ loc[t].pc = "idle"
    /\ \E py_scanid \in ConcScanIdArgs :
            Step(t, ScanInfo_Parse(TRUE, TRUE, py_scanid, NULL))

CallConc(t) ==
    \/ ScanApply_Concurrent(t)
    \/ Invoke_Preconditions(t)
    \/ Invoke_ScanInit(t)
    \/ Invoke_Policy(t)
    \/ Invoke_Options(t)
    \/ Invoke_ToList(t)
    \/ Invoke_ApplyEach(t)
    \/ Invoke_Background(t)
    \/ Invoke_Cleanup(t)
    \/ ScanInfo_Concurrent(t)
    \/ Info_CheckSelf(t)
    \/ Info_Policy(t)
    \/ Info_Query(t)
    \/ Info_Fill(t)
    \/ Info_Cleanup(t)
    \/ Return(t)

NextConc ==
    \/ \E t \in Slots : CallConc(t)
    \/ Store

\* Calls run in both slots, their steps interleaved in any order.
SpecConc == Init /\ [][NextConc]_vars

\* ------------------------------------------------------------------------
\* Properties
\* ------------------------------------------------------------------------
Finished(l, op) == l.pc = "done" /\ l.op = op

\* The call raised the module's error with the code AEROSPIKE_ERR_PARAM.
InvalidParam(l) ==
    /\ l.result.kind = NULL
    /\ l.exc.type = "Exception"
    /\ l.exc.code = AEROSPIKE_ERR_PARAM

StringParams(l) == {l.namespace, l.set, l.module, l.function}

Has(l, step) == \E k \in 1..Len(l.trace) : l.trace[k] = step

\* C1, as claimed: a scan_apply in which any of namespace, set, module or
\* function is empty or absent fails with InvalidParam and never reaches
\* aerospike_scan_background.
C1_EmptyOrAbsentIsInvalidParam ==
    \A t \in Slots :
        (Finished(loc[t], "scan_apply") /\ StringParams(loc[t]) \cap {NULL, ""} # {})
            => (InvalidParam(loc[t]) /\ loc[t].submits = 0)

\* C1, amended: a scan_apply in which any of namespace, set, module or
\* function is absent fails in the argument parser, with its TypeError and
\* before any step of the builder, and aerospike_scan_background is called
\* zero times.  (An empty string is not rejected.)
C1_AbsentFailsInParser ==
    \A t \in Slots :
        (Finished(loc[t], "scan_apply") /\ NULL \in StringParams(loc[t]))
            => /\ loc[t].result.kind = NULL
               /\ loc[t].exc.type = "TypeError"
               /\ loc[t].trace = <<>>
               /\ loc[t].submits = 0

C1_Witness ==
    \E t \in Slots :
        /\ Finished(loc[t], "scan_apply")
        /\ loc[t].namespace = "s" /\ loc[t].set = "" /\ loc[t].module = NULL
        /\ loc[t].exc.type = "TypeError"

\* C2, as claimed: the integer a successful scan_apply returns is
\* non-negative and equals the unsigned 64-bit identifier the store issued.
C2_ReturnsIssuedIdentifier ==
    \A t \in Slots :
        (Finished(loc[t], "scan_apply") /\ loc[t].result.kind = "int")
            => loc[t].result.int = PyInt(1, loc[t].scan_id)

\* The call ended with a fully valid result.
ValidResult(l) ==
    \/ l.op = "scan_apply" /\ l.result.kind = "int"
    \/ l.op = "scan_info" /\ l.result.kind = "dict" /\ FullSnapshot(l.result.dict)

\* The call ended with an error raised to the caller.
RaisedError(l) == l.result.kind = NULL /\ l.exc.type # "none"

\* C3, as claimed: every scan_apply and scan_info call ends with a fully
\* valid result and no error, or with an error and no result.
C3_ResultXorError ==
    \A t \in Slots :
        loc[t].pc = "done"
            => \/ ValidResult(loc[t]) /\ loc[t].exc.type = "none"
               \/ RaisedError(loc[t]) /\ ~ValidResult(loc[t])

\* The query of the call succeeded: the store returned AEROSPIKE_OK, left the
\* error record clear and wrote a raw snapshot.
QuerySucceeded(l) ==
    l.queries = 1 /\ l.status = AEROSPIKE_OK /\ l.err.code = AEROSPIKE_OK

\* The value stored under key k in the dictionary d.
Item(d, k) == CHOOSE v \in {kv[2] : kv \in {x \in d : x[1] = k}} : TRUE

\* C4: for every raw snapshot the store returns successfully, the snapshot
\* scan_info returns has status = raw status + AS_SCAN_STATUS and
\* progress_pct and records_scanned equal to the raw values; scan_info
\* returns that snapshot whenever the result container was allocated.
C4_StatusIsRawPlusOffset ==
    \A t \in Slots :
        (Finished(loc[t], "scan_info") /\ QuerySucceeded(loc[t]))
            => /\ loc[t].scan_info \in {RawSnapshots[k] : k \in DOMAIN RawSnapshots}
               /\ ~loc[t].retObj.null =>
                    /\ ValidResult(loc[t])
                    /\ Item(loc[t].result.dict, STATUS)
                            = loc[t].scan_info.status + AS_SCAN_STATUS
                    /\ Item(loc[t].result.dict, PROGRESS_PCT)
                            = loc[t].scan_info.progress_pct
                    /\ Item(loc[t].result.dict, RECORDS_SCANNED)
                            = loc[t].scan_info.records_scanned
               /\ loc[t].retObj.null => loc[t].result.kind = NULL

C4_Witness ==
    \E t \in Slots :
        /\ Finished(loc[t], "scan_info") /\ QuerySucceeded(loc[t])
        /\ loc[t].scan_info.status = 3
        /\ loc[t].result.kind = "dict"
        /\ <<STATUS, 3 + AS_SCAN_STATUS>> \in loc[t].result.dict

StepsBeforeDispatchSucceed(l) ==
    /\ NULL \notin StringParams(l)
    /\ l.self_ok
    /\ l.py_args = "list"
    /\ l.py_policy \in {NULL, "valid"}
    /\ l.py_options \in {NULL, "valid"}
    /\ l.scan_udf # NULL

\* C6: a scan_apply calls aerospike_scan_background exactly once when every
\* step in front of it succeeded and zero times when one of them failed; it
\* is never called twice, whatever the first call returned.
C6_DispatchedExactlyOnce ==
    \A t \in Slots :
        /\ loc[t].submits <= 1
        /\ Finished(loc[t], "scan_apply") =>
            loc[t].submits = IF StepsBeforeDispatchSucceed(loc[t]) THEN 1 ELSE 0

C6_Witness ==
    \E t \in Slots :
        /\ Finished(loc[t], "scan_apply")
        /\ loc[t].submits = 1
        /\ loc[t].exc.code = "AEROSPIKE_ERR_TIMEOUT"

\* The store failed the query of the call.
QueryFailed(l) ==
    l.queries = 1 /\ (l.status # AEROSPIKE_OK \/ l.err.code # AEROSPIKE_OK)

\* C7, as claimed: a scan_info calls aerospike_scan_info at most once, zero
\* times when the client handle is invalid or the policy fails validation or
\* conversion, and a failed query is reported as an error.
C7_QueriedAtMostOnce ==
    \A t \in Slots :
        /\ loc[t].queries <= 1
        /\ Finished(loc[t], "scan_info") =>
            /\ (~loc[t].self_ok \/ loc[t].py_policy \in {"bad_shape", "bad_value"})
                    => loc[t].queries = 0
            /\ QueryFailed(loc[t]) => RaisedError(loc[t])

\* C8, as claimed: when the store rejects the dispatch or the status query,
\* the error raised carries the code and message the store set and no
\* identifier or snapshot is returned.
C8_StoreErrorPropagated ==
    \A t \in Slots :
        /\ (Finished(loc[t], "scan_apply") /\ loc[t].submits = 1
                /\ loc[t].err.code # AEROSPIKE_OK)
            => /\ loc[t].result.kind = NULL
               /\ loc[t].exc = error_to_pyobject(loc[t].err)
        /\ (Finished(loc[t], "scan_info") /\ QueryFailed(loc[t]))
            => /\ loc[t].result.kind = NULL
               /\ loc[t].exc.type = "Exception"
               /\ loc[t].exc.code =
                    IF loc[t].err.code # AEROSPIKE_OK THEN loc[t].err.code
                    ELSE loc[t].status

Raised(l, message) ==
    l.result.kind = NULL /\ l.exc = [type |-> "Exception",
                                     code |-> AEROSPIKE_ERR_PARAM,
                                     message |-> message]

\* C9, as claimed: of several violated preconditions of scan_apply the
\* earliest is reported: an invalid client handle, then a null or empty
\* namespace, set, module or function, then args that is not a list.
C9_FirstViolationWins ==
    \A t \in Slots :
        Finished(loc[t], "scan_apply") =>
            LET l == loc[t]
                badString == StringParams(l) \cap {NULL, ""} # {}
            IN  /\ ~l.self_ok => Raised(l, "Invalid aerospike object")
                /\ (l.self_ok /\ badString)
                        => Raised(l, "Parameter should not be null")
                /\ (l.self_ok /\ ~badString /\ ~PyList_Check(l.py_args))
                        => Raised(l, "Arguments should be a list")

\* C9, amended: of several violated preconditions of scan_apply the earliest
\* is reported, in the order: an absent namespace, set, module or function
\* (the parser's TypeError), then an invalid client handle, then args that
\* is not a list.  An empty string violates no precondition.
C9_FirstViolationWinsAbsentFirst ==
    \A t \in Slots :
        Finished(loc[t], "scan_apply") =>
            LET l == loc[t]
                absent == NULL \in StringParams(l)
            IN  /\ absent => (l.result.kind = NULL /\ l.exc.type = "TypeError")
                /\ (~absent /\ ~l.self_ok) => Raised(l, "Invalid aerospike object")
                /\ (~absent /\ l.self_ok /\ ~PyList_Check(l.py_args))
                        => Raised(l, "Arguments should be a list")

C9_Witness ==
    \E t \in Slots :
        /\ Finished(loc[t], "scan_apply")
        /\ ~loc[t].self_ok /\ loc[t].py_args = "scalar" /\ loc[t].namespace = ""
        /\ Raised(loc[t], "Invalid aerospike object")

\* C10: a scan_info that returns a snapshot for the same scanid and the same
\* policy as the last scan_info that returned one, the job not having
\* changed in the store since that one queried it, returns the same snapshot.
C10_ScanInfoIdempotent ==
    \A t \in Slots :
        (/\ ReturnedSnapshot(loc[t])
         /\ lastInfo.valid
         /\ lastInfo.py_scanid = loc[t].py_scanid
         /\ lastInfo.policy = loc[t].py_policy)
            => loc[t].result.dict = lastInfo.dict

C10_Witness ==
    \E t \in Slots :
        /\ ReturnedSnapshot(loc[t])
        /\ lastInfo.valid
        /\ lastInfo.py_scanid = loc[t].py_scanid
        /\ lastInfo.policy = loc[t].py_policy
        /\ loc[t].py_scanid.sign = -1
        /\ loc[t].result.dict = lastInfo.dict

\* ------------------------------------------------------------------------
\* The same outcomes when aerospike_scan_info keeps its returned status and
\* the error record in agreement
\* ------------------------------------------------------------------------
StatusAgrees(l) ==
    l.queries = 1 => (l.status = AEROSPIKE_OK <=> l.err.code = AEROSPIKE_OK)

\* With status and error record in agreement a call ends with a fully valid
\* result and no error, or with an error and no result.
ResultXorErrorWhenStatusAgrees ==
    \A t \in Slots :
        (loc[t].pc = "done" /\ StatusAgrees(loc[t]))
            => \/ ValidResult(loc[t]) /\ loc[t].exc.type = "none"
               \/ RaisedError(loc[t]) /\ ~ValidResult(loc[t])

\* With status and error record in agreement a failed query is raised with
\* the code and the message the store set, and no snapshot is returned.
QueryErrorPropagatedWhenStatusAgrees ==
    \A t \in Slots :
        (Finished(loc[t], "scan_info") /\ QueryFailed(loc[t]) /\ StatusAgrees(loc[t]))
            => /\ loc[t].result.kind = NULL
               /\ loc[t].exc = error_to_pyobject(loc[t].err)

\* A rejected dispatch is raised with the code and the message the store set,
\* and no identifier is returned.
DispatchErrorPropagated ==
    \A t \in Slots :
        (Finished(loc[t], "scan_apply") /\ loc[t].submits = 1
                /\ loc[t].err.code # AEROSPIKE_OK)
            => /\ loc[t].result.kind = NULL
               /\ loc[t].exc = error_to_pyobject(loc[t].err)

\* The query counts, whatever the store returns.
QueryCounts ==
    \A t \in Slots :
        /\ loc[t].queries <= 1
        /\ Finished(loc[t], "scan_info") =>
            ((~loc[t].self_ok \/ loc[t].py_policy \in {"bad_shape", "bad_value"})
                    => loc[t].queries = 0)

\* ------------------------------------------------------------------------
\* Properties of the submission, the resources and the call discipline
\* ------------------------------------------------------------------------
\* The collaborator calls of the call after its k-th one.
After(l, k) == SubSeq(l.trace, k + 1, Len(l.trace))

\* C11: scan_apply returns the identifier as soon as the store accepts the
\* job: the call makes no status query, the dispatch is followed by the
\* release of the descriptor only, and the step that returns is enabled
\* whatever the state of the job.
C11_ReturnsOnAcceptance ==
    \A t \in Slots :
        loc[t].op = "scan_apply" =>
            /\ loc[t].queries = 0
            /\ ~Has(loc[t], "aerospike_scan_info")
            /\ \A k \in 1..Len(loc[t].trace) :
                (loc[t].trace[k] = "aerospike_scan_background"
                        /\ loc[t].err.code = AEROSPIKE_OK)
                    => After(loc[t], k) \in {<<>>, <<"as_scan_destroy">>}
            /\ loc[t].pc = "sa_cleanup" => ENABLED Invoke_Cleanup(t)

\* scan_apply has returned the identifier of a job that is still in progress.
C11_Witness ==
    \E t \in Slots :
        /\ Finished(loc[t], "scan_apply")
        /\ loc[t].result.kind = "int"
        /\ loc[t].scan_id \in DOMAIN jobs
        /\ RawSnapshots[jobs[loc[t].scan_id]].status = 1

\* The number of calls of the collaborator step the call has made.
Count(l, step) == Cardinality({k \in 1..Len(l.trace) : l.trace[k] = step})

\* C12: in scan_apply the descriptor is destroyed exactly once before the
\* call returns if it was initialised and never if it was not, and by the
\* end of the call every resource acquired (the descriptor, the argument
\* list) has been released as often as it was acquired.
C12_DescriptorDestroyedOnce ==
    \A t \in Slots :
        loc[t].op = "scan_apply" =>
            /\ loc[t].scan_destroys <= Count(loc[t], "as_scan_init")
            /\ Count(loc[t], "as_scan_init") <= 1
            /\ loc[t].pc = "done" =>
                /\ loc[t].scan_destroys = Count(loc[t], "as_scan_init")
                /\ loc[t].list_destroys = Count(loc[t], "pyobject_to_list")

\* A call that failed after the descriptor was initialised has destroyed it.
C12_Witness ==
    \E t \in Slots :
        /\ Finished(loc[t], "scan_apply")
        /\ loc[t].py_options = "bad"
        /\ loc[t].exc.type = "Exception"
        /\ Count(loc[t], "as_scan_init") = 1
        /\ loc[t].scan_destroys = 1

\* C13: in scan_apply a converted argument list is released exactly once on
\* every path: by as_list_destroy in the builder's cleanup when the attach
\* failed, through as_scan_destroy when the attach succeeded, whether the
\* dispatch then succeeded or failed; never by both and never by neither.
C13_ArgumentListReleasedOnce ==
    \A t \in Slots :
        (loc[t].op = "scan_apply" /\ loc[t].py_args = "list"
                /\ Has(loc[t], "pyobject_to_list"))
            => /\ loc[t].list_destroys <= 1
               /\ loc[t].pc = "done" =>
                    /\ loc[t].list_destroys = 1
                    /\ loc[t].scan_udf = NULL =>
                        (Count(loc[t], "as_list_destroy") = 1
                            /\ loc[t].submits = 0)
                    /\ loc[t].scan_udf # NULL =>
                        (Count(loc[t], "as_list_destroy") = 0
                            /\ loc[t].scan_destroys = 1
                            /\ loc[t].submits = 1)

\* The attach succeeded, the dispatch failed, the list was released once.
C13_Witness ==
    \E t \in Slots :
        /\ Finished(loc[t], "scan_apply")
        /\ loc[t].scan_udf # NULL
        /\ loc[t].submits = 1
        /\ loc[t].exc.type = "Exception"
        /\ loc[t].list_destroys = 1

\* The call dropped its reference to the result container.  scan_info has no
\* such statement: the only Py_DECREF calls of lines 190-260 are on the three
\* item values and on py_err.
RetObjReleased(l) == Has(l, "Py_DECREF(retObj)")

\* C14, as claimed: the result container a scan_info call allocated is, when
\* the call has returned, either the snapshot handed to the caller or
\* released, on every exit path: the parser's failure, an invalid client
\* handle, a policy failure, a failed query.
C14_ContainerReturnedOrReleased ==
    \A t \in Slots :
        (Finished(loc[t], "scan_info") /\ ~loc[t].retObj.null)
            => \/ loc[t].result.kind = "dict"
               \/ RetObjReleased(loc[t])

\* The two policy converters.
PolicyConverters == {"pyobject_to_policy_scan", "pyobject_to_policy_info"}

\* The k-th collaborator call of the call is a policy converter's, and the
\* validator was called before it, on the call's policy, and accepted it.
ValidatedBefore(l, k) ==
    /\ \E j \in 1..(k - 1) : l.trace[j] = "validate_policy_scan"
    /\ validate_policy_scan(ErrorInit, l.py_policy).code = AEROSPIKE_OK

\* C15, as claimed: in both operations, whenever the policy converter is
\* invoked, the validator was invoked earlier in the same call on the same
\* policy and reported success.
C15_ConvertedOnlyAfterValidation ==
    \A t \in Slots :
        \A k \in 1..Len(loc[t].trace) :
            loc[t].trace[k] \in PolicyConverters => ValidatedBefore(loc[t], k)

\* C15, amended: whenever the policy converter is invoked on a policy that
\* was supplied, the validator was invoked earlier in the same call on that
\* policy and reported success.  scan_apply does not invoke the converter
\* when no policy was supplied; scan_info does, and without the validator.
C15_SuppliedPolicyConvertedAfterValidation ==
    \A t \in Slots :
        \A k \in 1..Len(loc[t].trace) :
            loc[t].trace[k] \in PolicyConverters =>
                IF loc[t].py_policy # NULL
                THEN ValidatedBefore(loc[t], k)
                ELSE /\ loc[t].op = "scan_info"
                     /\ ~Has(loc[t], "validate_policy_scan")

\* A scan_info call converted the policy it was given after validating it.
C15_Witness ==
    \E t \in Slots :
        /\ Finished(loc[t], "scan_info")
        /\ loc[t].py_policy \in {"valid", "bad_value"}
        /\ Has(loc[t], "validate_policy_scan")
        /\ Has(loc[t], "pyobject_to_policy_info")

\* The steps of a call that release or report; all others build, convert,
\* attach, dispatch or query.
CleanupSteps == {"as_list_destroy", "as_scan_destroy", "error_to_pyobject"}

\* The positions a call can be at once nothing is left but cleanup.
CleanupPcs == {"sa_cleanup", "si_cleanup", "done"}

\* The call's error record holds a failure: the call is at its cleanup or
\* past it, and when it has returned it has reported that record, once.
ShortCircuited(l) ==
    /\ l.pc \in CleanupPcs
    /\ l.pc = "done" =>
        /\ l.reports = 1
        /\ Count(l, "error_to_pyobject") = 1
        /\ l.trace[Len(l.trace)] = "error_to_pyobject"
        /\ l.exc = error_to_pyobject(l.err)

\* C16, as claimed: within a call, once the error record holds a failure no
\* further build, conversion, attach, dispatch or query step executes (the
\* call is at its cleanup), the record is not modified again, and exactly one
\* error-reporting call occurs before the call returns.
C16_FirstFailureShortCircuits ==
    \A t \in Slots :
        (loc[t].pc # "idle" /\ loc[t].err.code # AEROSPIKE_OK)
            => ShortCircuited(loc[t])

\* C16 holds of every call in which the status aerospike_scan_info returned
\* agrees with the error record it left.
FirstFailureShortCircuitsWhenStatusAgrees ==
    \A t \in Slots :
        (loc[t].pc # "idle" /\ loc[t].err.code # AEROSPIKE_OK
                /\ StatusAgrees(loc[t]))
            => ShortCircuited(loc[t])

\* Once the error record holds a failure, every step of the call leaves the
\* record as it is and makes none but cleanup calls.
FailureIsFinal ==
    [][\A t \in Slots :
        (loc[t].pc \notin {"idle", "done"} /\ loc[t].err.code # AEROSPIKE_OK
                /\ loc'[t].trace # loc[t].trace)
            => /\ loc'[t].err = loc[t].err
               /\ \A k \in (Len(loc[t].trace) + 1)..Len(loc'[t].trace) :
                    loc'[t].trace[k] \in CleanupSteps]_vars

\* The next step of a call run by itself, the C client and the store
\* answering r.
RunStep(x, r) ==
    CASE x.pc = "sa_pre" -> ScanApply_Preconditions(x)
      [] x.pc = "sa_scan_init" -> ScanApply_ScanInit(x)
      [] x.pc = "sa_policy" -> ScanApply_Policy(x)
      [] x.pc = "sa_options" -> ScanApply_Options(x)
      [] x.pc = "sa_to_list" -> ScanApply_ToList(x)
      [] x.pc = "sa_apply_each" -> ScanApply_ApplyEach(x, r.attached)
      [] x.pc = "sa_background" -> ScanApply_Background(x, r.submit)
      [] x.pc = "sa_cleanup" -> ScanApply_Cleanup(x)
      [] x.pc = "si_pre" -> ScanInfo_CheckSelf(x)
      [] x.pc = "si_policy" -> ScanInfo_Policy(x)
      [] x.pc = "si_query" -> ScanInfo_Query(x, r.query)
      [] x.pc = "si_fill" -> ScanInfo_Fill(x)
      [] x.pc = "si_cleanup" -> ScanInfo_Cleanup(x)

RECURSIVE Run(_, _)
\* The call run to its end with nothing between its steps.
Run(x, r) == IF x.pc = "done" THEN x ELSE Run(RunStep(x, r), r)

\* The call of slot record l made alone: the same arguments, the same
\* answers of the C client and the store.
Alone(l) ==
    Run(IF l.op = "scan_apply"
        THEN ScanApply_Parse(l.self_ok, l.namespace, l.set, l.module, l.function,
                             l.py_args, l.py_policy, l.py_options)
        ELSE ScanInfo_Parse(l.self_ok, ~l.retObj.null, l.py_scanid, l.py_policy),
        l.resp)

\* What a call leaves behind: its result, the error it raised, the calls it
\* made and the releases it did.
Outcome(l) ==
    [ result |-> l.result, exc |-> l.exc, err |-> l.err, trace |-> l.trace,
      list_destroys |-> l.list_destroys, scan_destroys |-> l.scan_destroys,
      reports |-> l.reports ]

\* The locals of a call without the bookkeeping of what the store did since.
Own(l) == [l EXCEPT !.fresh = FALSE]

\* Every finished call has the outcome it has alone.
OutcomeAsAlone ==
    \A t \in Slots :
        loc[t].pc = "done" => Outcome(loc[t]) = Outcome(Alone(loc[t]))

\* A step of one call leaves the locals of every other call as they are.
OwnLocalsOnly ==
    \A t, u \in Slots :
        (t # u /\ Own(loc'[t]) # Own(loc[t])) => Own(loc'[u]) = Own(loc[u])

\* The other of the two slots.
Other(t) == CHOOSE u \in Slots : u # t

\* C17: under any interleaving of two concurrent scan_apply / scan_info calls
\* on one client handle each call's outcome is the one it has alone against
\* the same store responses, and no step of a call touches the descriptor,
\* argument list or error record of another call.
C17_ConcurrentCallsIndependent ==
    /\ []OutcomeAsAlone
    /\ [][OwnLocalsOnly]_vars

\* A scan_info call finished inside a scan_apply call: it queried the job
\* the scan_apply call had dispatched and not yet returned the id of (the job
\* has not changed since), and ended with the snapshot it has alone.
C17_Witness ==
    \E t \in Slots :
        /\ loc[t].op = "scan_apply"
        /\ loc[t].pc = "sa_cleanup"
        /\ loc[t].resp.submit.accepted
        /\ Finished(loc[Other(t)], "scan_info")
        /\ loc[Other(t)].result.kind = "dict"
        /\ loc[Other(t)].fresh
        /\ LongToUInt64(loc[Other(t)].lscanId) = loc[t].scan_id

\* The integer scan_apply returns for the identifier i (line 139).
Returned(i) == PyLong_FromLong(UInt64ToLong(i))

\* C18: the identifier survives the round trip.  The integer scan_apply
\* returns for an identifier the store issued converts back, by the "l"
\* format unit and the conversion to uint64_t, to that identifier; and a
\* scan_info call given that integer is not refused by its parser and
\* queries the store with exactly the identifier issued.
C18_IdentifierRoundTrip ==
    \A t \in Slots :
        /\ (Finished(loc[t], "scan_apply") /\ loc[t].result.kind = "int")
            => /\ FitsLong(loc[t].result.int)
               /\ LongToUInt64(PyLong_AsLong(loc[t].result.int)) = loc[t].scan_id
        /\ \A i \in IdSet :
            (loc[t].op = "scan_info" /\ loc[t].py_scanid = Returned(i))
                => /\ loc[t].exc.type \notin {"TypeError", "OverflowError"}
                   /\ loc[t].queries = 1 => loc[t].queried = i

\* scan_info was given the negative integer scan_apply returns for the
\* identifier 2^64 - 1 and read the snapshot of that job.
C18_Witness ==
    \E t \in Slots :
        /\ Finished(loc[t], "scan_info")
        /\ QuerySucceeded(loc[t])
        /\ loc[t].py_scanid = PyInt(-1, Word(0, 0, 0, 1))
        /\ loc[t].queried = Word(LimbMax, LimbMax, LimbMax, LimbMax)
        /\ loc[t].queried \in DOMAIN jobs
        /\ loc[t].result.kind = "dict"

====
